---- MODULE Spec2Model ----
(***************************************************************************)
(* fcp: a parallel file copier.  fcp(args) resolves the destination mode   *)
(* (copy_single / copy_into), runs the pre-flight guards                   *)
(* (reject_self_copies, file_names) and then copies every source with      *)
(* copy_file, recursing through copy_directory; siblings run in parallel   *)
(* and their error flags are OR-reduced.                                   *)
(*                                                                         *)
(* The host filesystem is an inode table (a sequence of nodes, node 1 the  *)
(* root directory); a directory maps names to node indexes, 0 for "no      *)
(* such entry".  A path is [abs, comps]; a relative path is resolved       *)
(* against CurrentDir.                                                     *)
(***************************************************************************)
EXTENDS Integers, Sequences, FiniteSets, TLC

\* Longest path, in components, the filesystem accepts (ENAMETOOLONG beyond).
MaxDepth == 3
\* Symbolic links followed in one path resolution before it fails (ELOOP).
MaxLinks == 2
\* Invocations of the program made one after the other with the same arguments.
MaxRuns == 2

Names == {"d", "e", "f", "h", "k", "l", "m", "n", "p", "q", "v", "z"}
\* The order in which a directory listing yields its entries.
NameOrder == <<"d", "e", "f", "h", "k", "l", "m", "n", "p", "q", "v", "z">>

FileTypes ==
    {"Regular", "Directory", "Symlink", "Fifo", "Socket", "CharacterDevice", "BlockDevice"}

Abs(comps) == [abs |-> TRUE, comps |-> comps]
Rel(comps) == [abs |-> FALSE, comps |-> comps]
\* The working directory of the process.
CurrentDir == <<"p">>

NoEntries == [n \in Names |-> 0]
Node(type, dev, ino, mode, data, target, entries, lsErr) ==
    [type |-> type, dev |-> dev, ino |-> ino, mode |-> mode, data |-> data,
     target |-> target, entries |-> entries, lsErr |-> lsErr]

------------------------------------------------------------------------------
(* Paths (std::path as lib.rs uses it) *)

\* Path::join
PathJoin(path, name) == [path EXCEPT !.comps = Append(@, name)]
\* Path::is_relative
IsRelative(path) == ~path.abs
\* Path::file_name: the final component, <<>> when there is none
FileName(path) ==
    IF path.comps = <<>> \/ path.comps[Len(path.comps)] = "."
    THEN <<>>
    ELSE <<path.comps[Len(path.comps)]>>
\* Path::ancestors: the path itself, then each parent up to the root (or "")
Ancestors(path) ==
    [i \in 1..(Len(path.comps) + 1) |->
        [path EXCEPT !.comps = SubSeq(@, 1, Len(path.comps) + 1 - i)]]
\* Path::strip_prefix(prefix).unwrap_or(path)
IsPrefix(s, t) == Len(s) <= Len(t) /\ SubSeq(t, 1, Len(s)) = s
StripPrefix(path, prefix) ==
    IF prefix.abs = path.abs /\ IsPrefix(prefix.comps, path.comps)
    THEN Rel(SubSeq(path.comps, Len(prefix.comps) + 1, Len(path.comps)))
    ELSE path
\* The components the operating system walks from the root for a path.
AbsComps(path) == IF path.abs THEN path.comps ELSE CurrentDir \o path.comps

------------------------------------------------------------------------------
(* Filesystem abstraction (crate::filesystem) *)

RECURSIVE Walk(_, _, _, _, _)
Walk(f, cur, comps, follow, fuel) ==
    IF comps = <<>> THEN cur
    ELSE IF f[cur].type # "Directory" THEN 0
    ELSE IF Head(comps) = "." THEN Walk(f, cur, Tail(comps), follow, fuel)
    ELSE LET nxt == f[cur].entries[Head(comps)]
             rest == Tail(comps)
         IN  IF nxt = 0 THEN 0
             ELSE IF f[nxt].type = "Symlink" /\ (rest # <<>> \/ follow)
                  THEN IF fuel = 0 THEN 0
                       ELSE Walk(f, 1, f[nxt].target.comps \o rest, follow, fuel - 1)
                  ELSE Walk(f, nxt, rest, follow, fuel)

\* The node a path names, 0 when the query fails; the empty path names nothing.
Lookup(f, path, follow) ==
    IF ~path.abs /\ path.comps = <<>> THEN 0
    ELSE Walk(f, 1, AbsComps(path), follow, MaxLinks)

\* fs::metadata (follows symbolic links) and fs::symlink_metadata (does not)
Metadata(f, path) == Lookup(f, path, TRUE)
SymlinkMetadata(f, path) == Lookup(f, path, FALSE)
\* fs::file_type: the type of a top-level source, "Err" when the query fails
FsFileType(f, path) ==
    IF Metadata(f, path) = 0 THEN "Err" ELSE f[Metadata(f, path)].type
\* fs::entry_file_type: the type of a listed entry itself
EntryFileType(f, idx) == f[idx].type
\* Permission to read a node's bytes or listing.
Readable(node) == node.mode >= 4
\* Permission to open an existing file for writing.
Writable(node) == node.mode % 4 >= 2

\* The directory a new entry at `path` goes into, 0 when it cannot be created there.
ParentOf(f, path) ==
    LET ac == AbsComps(path) IN
    IF ac = <<>> \/ Len(ac) > MaxDepth \/ (~path.abs /\ path.comps = <<>>) THEN 0
    ELSE LET par == Walk(f, 1, SubSeq(ac, 1, Len(ac) - 1), TRUE, MaxLinks) IN
         IF par = 0 THEN 0
         ELSE IF f[par].type # "Directory" THEN 0
         ELSE IF f[par].entries[ac[Len(ac)]] # 0 THEN 0
         ELSE par

Failed(f) == [ok |-> FALSE, fs |-> f]
\* A new node `node` entered at `path`; fails when the entry exists or has no parent.
CreateAt(f, path, node) ==
    LET par == ParentOf(f, path)
        ac == AbsComps(path)
    IN  IF par = 0 THEN Failed(f)
        ELSE [ok |-> TRUE,
              fs |-> Append([f EXCEPT ![par].entries[ac[Len(ac)]] = Len(f) + 1],
                            [node EXCEPT !.dev = f[par].dev, !.ino = Len(f) + 1])]

\* A create_dir that takes an existing directory for its own (mkdir -p).
FsCreateDirOrKeep(f, dst, mode) ==
    LET d == Metadata(f, dst) IN
    IF d # 0 /\ f[d].type = "Directory" THEN [ok |-> TRUE, fs |-> f]
    ELSE CreateAt(f, dst, Node("Directory", 0, 0, mode, 0, Abs(<<>>), NoEntries, FALSE))

\* fs::create_dir(dest, mode)
FsCreateDir(f, dst, mode) ==
    CreateAt(f, dst, Node("Directory", 0, 0, mode, 0, Abs(<<>>), NoEntries, FALSE))
\* fs::symlink(target, dest)
FsSymlink(f, target, dst) ==
    CreateAt(f, dst, Node("Symlink", 0, 0, 7, 0, target, NoEntries, FALSE))
\* fs::mkfifo(dest, permissions)
FsMkfifo(f, dst, mode) ==
    CreateAt(f, dst, Node("Fifo", 0, 0, mode, 0, Abs(<<>>), NoEntries, FALSE))
\* fs::create(dest, mode) followed by writing `data`: a regular file, truncated
\* when it exists
FsCreate(f, dst, mode, data) ==
    LET d == Metadata(f, dst) IN
    IF d # 0
    THEN IF f[d].type = "Regular" /\ Writable(f[d])
         THEN [ok |-> TRUE, fs |-> [f EXCEPT ![d].data = data]]
         ELSE Failed(f)
    ELSE IF SymlinkMetadata(f, dst) # 0 THEN Failed(f)
    ELSE CreateAt(f, dst, Node("Regular", 0, 0, mode, data, Abs(<<>>), NoEntries, FALSE))
\* A copy that never overwrites: it fails when the destination exists (O_EXCL).
FsCopyNoOverwrite(f, src, dst) ==
    LET s == Metadata(f, src) IN
    IF s = 0 THEN Failed(f)
    ELSE IF f[s].type # "Regular" \/ ~Readable(f[s]) THEN Failed(f)
    ELSE IF SymlinkMetadata(f, dst) # 0 THEN Failed(f)
    ELSE CreateAt(f, dst,
             Node("Regular", 0, 0, f[s].mode, f[s].data, Abs(<<>>), NoEntries, FALSE))

\* fs::copy(source, dest): content and permission bits; overwrites an existing
\* regular file it may write to (truncating it first, so a file copied onto
\* itself ends empty)
FsCopy(f, src, dst) ==
    LET s == Metadata(f, src)
        d == Metadata(f, dst)
    IN  IF s = 0 THEN Failed(f)
        ELSE IF f[s].type # "Regular" \/ ~Readable(f[s]) THEN Failed(f)
        ELSE IF d # 0
        THEN IF f[d].type # "Regular" \/ ~Writable(f[d]) THEN Failed(f)
             ELSE [ok |-> TRUE,
                   fs |-> [f EXCEPT ![d].data = IF d = s THEN 0 ELSE f[s].data,
                                    ![d].mode = f[s].mode]]
        ELSE IF SymlinkMetadata(f, dst) # 0 THEN Failed(f)
        ELSE CreateAt(f, dst,
                 Node("Regular", 0, 0, f[s].mode, f[s].data, Abs(<<>>), NoEntries, FALSE))
\* fs::read_dir(source): the names listed, in listing order; <<"Err">> wrapped
\* as ok = FALSE when the directory cannot be opened
FsReadDir(f, src) ==
    LET s == Metadata(f, src) IN
    IF s = 0 THEN [ok |-> FALSE, names |-> <<>>, entryErr |-> FALSE]
    ELSE IF f[s].type # "Directory" \/ ~Readable(f[s])
    THEN [ok |-> FALSE, names |-> <<>>, entryErr |-> FALSE]
    ELSE [ok |-> TRUE,
          names |-> SelectSeq(NameOrder, LAMBDA n : f[s].entries[n] # 0),
          entryErr |-> f[s].lsErr]

------------------------------------------------------------------------------
(* Self-Copy Guard and Name-Collision Checker *)

\* unique_id: the (device, inode) pair of a node, <<>> when the query failed
UniqueId(f, idx) == IF idx = 0 THEN <<>> ELSE <<f[idx].dev, f[idx].ino>>

\* The inner loop with a source that cannot be queried passed over in silence.
RECURSIVE SourceLinesSkipErr(_, _, _, _, _)
SourceLinesSkipErr(f, srcs, i, shown, id) ==
    IF i > Len(srcs) THEN <<>>
    ELSE LET sid == UniqueId(f, SymlinkMetadata(f, srcs[i]))
             line == IF sid # <<>> /\ sid = id THEN << <<"self", srcs[i], shown>> >>
                     ELSE <<>>
         IN  line \o SourceLinesSkipErr(f, srcs, i + 1, shown, id)

\* The inner loop of reject_self_copies for one ancestor whose identity is `id`:
\* a line per source equal to it, and a line per source that could not be queried.
RECURSIVE SourceLines(_, _, _, _, _)
SourceLines(f, srcs, i, shown, id) ==
    IF i > Len(srcs) THEN <<>>
    ELSE LET sid == UniqueId(f, SymlinkMetadata(f, srcs[i]))
             line == IF sid = <<>> THEN << <<"stat", srcs[i]>> >>
                     ELSE IF sid = id THEN << <<"self", srcs[i], shown>> >>
                     ELSE <<>>
         IN  line \o SourceLines(f, srcs, i + 1, shown, id)

\* The loop over dest.ancestors(): `id?` returns the ancestor's error at once.
RECURSIVE AncestorLoop(_, _, _, _, _, _, _)
AncestorLoop(f, srcs, anc, prefix, i, bad, errors) ==
    IF i > Len(anc) THEN [ok |-> errors = <<>>, lines |-> errors]
    ELSE LET id == IF i = bad THEN <<>> ELSE UniqueId(f, Metadata(f, anc[i])) IN
         IF id = <<>> THEN [ok |-> FALSE, lines |-> << <<"stat", anc[i]>> >>]
         ELSE AncestorLoop(f, srcs, anc, prefix, i + 1, bad,
                  errors \o SourceLines(f, srcs, 1, StripPrefix(anc[i], prefix), id))

\* reject_self_copies(sources, dest).  cwdOk: env::current_dir() succeeded;
\* bad: the ancestor (by position) whose metadata query the host fails, 0 for none.
RejectSelfCopies(f, srcs, dst, cwdOk, bad) ==
    IF ~cwdOk THEN [ok |-> FALSE, lines |-> << <<"cwd">> >>]
    ELSE LET prefix == IF IsRelative(dst) THEN Abs(CurrentDir) ELSE Rel(<<>>)
             adst == IF IsRelative(dst) THEN Abs(CurrentDir \o dst.comps) ELSE dst
         IN  AncestorLoop(f, srcs, Ancestors(adst), prefix, 1, bad, <<>>)

\* file_names with the groups of equal names never reported.
FileNamesNoGroups(srcs) ==
    IF \E i \in 1..Len(srcs) : FileName(srcs[i]) = <<>>
    THEN [ok |-> FALSE, names |-> <<>>, lines |-> << <<"noname">> >>]
    ELSE [ok |-> TRUE, names |-> [i \in 1..Len(srcs) |-> FileName(srcs[i])[1]],
          lines |-> <<>>]

\* file_names(sources): the final component of every source, or the error lines.
FileNames(srcs) ==
    LET nameless == {i \in 1..Len(srcs) : FileName(srcs[i]) = <<>>}
        groups == {g \in SUBSET (1..Len(srcs)) :
                      /\ Cardinality(g) > 1
                      /\ \E i \in g : g = {j \in 1..Len(srcs) :
                                              FileName(srcs[j]) = FileName(srcs[i])}}
    IN  IF nameless # {}
        THEN [ok |-> FALSE, names |-> <<>>,
              lines |-> << <<"noname", srcs[CHOOSE i \in nameless :
                                                \A j \in nameless : i <= j]>> >>]
        ELSE IF groups # {}
        THEN [ok |-> FALSE, names |-> <<>>,
              lines |-> << <<"collide", {[j \in 1..Cardinality(g) |->
                                 srcs[CHOOSE i \in g :
                                     Cardinality({k \in g : k < i}) = j - 1]] : g \in groups}>> >>]
        ELSE [ok |-> TRUE, names |-> [i \in 1..Len(srcs) |-> FileName(srcs[i])[1]],
              lines |-> <<>>]

------------------------------------------------------------------------------
(* File Dispatcher *)

\* A dispatcher that makes a FIFO for a socket, and an empty file when the type
\* is not known.
CopyFileOpAlwaysActs(f, src, ty, dst) ==
    LET s == SymlinkMetadata(f, src) IN
    CASE ty = "Regular" -> FsCopy(f, src, dst)
      [] ty = "Symlink" ->
            IF s = 0 THEN Failed(f)
            ELSE IF f[s].type # "Symlink" THEN Failed(f)
            ELSE FsSymlink(f, f[s].target, dst)
      [] ty \in {"Fifo", "Socket"} -> IF s = 0 THEN Failed(f) ELSE FsMkfifo(f, dst, f[s].mode)
      [] ty \in {"CharacterDevice", "BlockDevice"} ->
            IF s = 0 THEN Failed(f)
            ELSE IF ~Readable(f[s]) THEN Failed(f)
            ELSE FsCreate(f, dst, f[s].mode, f[s].data)
      [] OTHER -> [ok |-> FALSE, fs |-> FsCreate(f, dst, 6, 0).fs]

\* __copy_file for every source type but Directory.
CopyFileOp(f, src, ty, dst) ==
    LET s == SymlinkMetadata(f, src) IN
    CASE ty = "Regular" -> FsCopy(f, src, dst)
      [] ty = "Symlink" ->
            IF s = 0 THEN Failed(f)
            ELSE IF f[s].type # "Symlink" THEN Failed(f)
            ELSE FsSymlink(f, f[s].target, dst)
      [] ty = "Fifo" -> IF s = 0 THEN Failed(f) ELSE FsMkfifo(f, dst, f[s].mode)
      [] ty \in {"CharacterDevice", "BlockDevice"} ->
            IF s = 0 THEN Failed(f)
            ELSE IF ~Readable(f[s]) THEN Failed(f)
            ELSE FsCreate(f, dst, f[s].mode, f[s].data)
      [] OTHER -> Failed(f)

\* Reduce with the identity forgotten: .reduce(|| false, BitOr::bitor) in copy_directory
ReduceNoIdentity(identity, flags) == \E i \in 1..Len(flags) : flags[i]

\* The OR-reduction of the sub-tasks' flags: .reduce(|| identity, BitOr::bitor)
RECURSIVE Reduce(_, _)
Reduce(identity, flags) ==
    IF flags = <<>> THEN identity ELSE Reduce(identity \/ Head(flags), Tail(flags))

------------------------------------------------------------------------------
(* The state of one invocation *)

VARIABLES
    fs,       \* the host filesystem
    fs0,      \* the filesystem when the invocation started
    args,     \* the path arguments
    pc,       \* "fcp", "copy_single", "copy_into", "par", "returned", "fatal"
    mode,     \* "single": copy_single dispatched copy_file itself; "into": copy_into
    sources,  \* the sources of the invocation
    dest,     \* its destination
    tasks,    \* the copy tasks started so far, in the order they were created
    stderr,   \* the per-item errors printed: <<"copy", task>>, <<"list", task>>
    result,   \* the boolean fcp returned
    reason,   \* which fatal condition ended the run
    lines,    \* the lines of the fatal message
    runs      \* the earlier invocations that returned: [start, fs, result]

vars ==
    <<fs, fs0, args, pc, mode, sources, dest, tasks, stderr, result, reason, lines, runs>>

\* A host filesystem.  ktype: the type of the entry /p/k; kfull: /p/k is a
\* directory holding the file z; fmode: the permission bits of /p/f;
\* lsErr: listing /p yields one entry that cannot be read.
World(ktype, kfull, fmode, lsErr) ==
    LET none == Abs(<<>>)
        base == <<
          Node("Directory", 1, 1, 7, 0, none,
               [NoEntries EXCEPT !["p"] = 2, !["q"] = 3, !["d"] = 6, !["l"] = 7,
                                 !["h"] = 4, !["m"] = 8, !["v"] = 9], FALSE),
          Node("Directory", 1, 2, 7, 0, none,
               [NoEntries EXCEPT !["f"] = 4, !["k"] = 11], lsErr),
          Node("Directory", 1, 3, 5, 0, none, [NoEntries EXCEPT !["f"] = 5], FALSE),
          Node("Regular", 1, 4, fmode, 1, none, NoEntries, FALSE),
          Node("Regular", 1, 5, 6, 2, none, NoEntries, FALSE),
          Node("Directory", 1, 6, 7, 0, none, NoEntries, FALSE),
          Node("Symlink", 1, 7, 7, 0, Abs(<<"p">>), NoEntries, FALSE),
          Node("Symlink", 1, 8, 7, 0, Abs(<<"p", "f">>), NoEntries, FALSE),
          Node("Directory", 2, 2, 7, 0, none, [NoEntries EXCEPT !["e"] = 10], FALSE),
          Node("Regular", 2, 4, 6, 3, none, NoEntries, FALSE),
          Node(ktype, 1, 11, 6,
               IF ktype \in {"Regular", "CharacterDevice", "BlockDevice"} THEN 4 ELSE 0,
               IF ktype = "Symlink" THEN Abs(<<"d", "f">>) ELSE none,
               IF kfull THEN [NoEntries EXCEPT !["z"] = 12] ELSE NoEntries, FALSE) >>
    IN  IF kfull
        THEN Append(base, Node("Regular", 1, 12, 4, 5, none, NoEntries, FALSE))
        ELSE base

Worlds ==
    {World(t, FALSE, 6, FALSE) : t \in FileTypes}
        \cup {World("Directory", TRUE, 6, FALSE), World("Socket", FALSE, 0, FALSE),
              World("Regular", FALSE, 6, TRUE), World("Regular", FALSE, 0, TRUE),
              World("Regular", FALSE, 4, FALSE)}
\* The world every argument list below is run in.
BaseWorld == World("Regular", FALSE, 6, FALSE)

SrcArgs ==
    {Abs(<<"p">>), Abs(<<"q">>), Abs(<<"p", "f">>), Abs(<<"q", "f">>), Abs(<<"p", "k">>),
     Abs(<<"n">>), Abs(<<>>), Abs(<<"l">>), Rel(<<"f">>), Rel(<<".">>)}
DstArgs ==
    {Abs(<<"d">>), Abs(<<"p">>), Abs(<<"l">>), Abs(<<"n">>), Abs(<<"p", "n">>),
     Abs(<<"p", "f">>), Abs(<<"h">>), Abs(<<"m">>), Abs(<<"v", "e">>), Abs(<<"q", "f">>),
     Abs(<<"d", "n", "n">>), Rel(<<"k">>), Rel(<<>>)}
\* Every argument list of up to two sources over these paths; the root directory
\* and the working directory are copied only into an existing directory, and the
\* link to a directory only on its own.
ArgLists ==
    {<<>>} \cup {<<d>> : d \in DstArgs}
        \cup {a \in {<<s, d>> : s \in SrcArgs, d \in DstArgs} :
                 a[1] \in {Abs(<<>>), Rel(<<".">>)} => a[2] \in {Abs(<<"d">>), Abs(<<"p">>)}}
        \cup {<<s, t, d>> : s \in SrcArgs \ {Abs(<<"l">>)}, t \in SrcArgs \ {Abs(<<"l">>)},
                             d \in DstArgs}
\* The argument lists every world is run with: whole trees and single entries
\* copied to a new path, into a directory, beside one another and into themselves.
TreeArgLists ==
    {<<Abs(<<"p">>), Abs(<<"n">>)>>, <<Abs(<<"p">>), Abs(<<"d">>)>>,
     <<Abs(<<"p">>), Abs(<<"q">>), Abs(<<"d">>)>>,
     <<Abs(<<"p", "k">>), Abs(<<"n">>)>>, <<Abs(<<"p", "k">>), Abs(<<"d">>)>>,
     <<Abs(<<"p", "f">>), Abs(<<"p", "k">>), Abs(<<"d">>)>>,
     <<Abs(<<"q">>), Rel(<<"k">>)>>, <<Abs(<<"p">>), Rel(<<"k">>)>>,
     <<Abs(<<"p">>), Abs(<<"p", "n">>)>>,
     <<Abs(<<"p", "f">>), Abs(<<"n">>)>>, <<Abs(<<"p", "f">>), Abs(<<"q", "f">>)>>}
\* Three sources fanned into one directory: two of them colliding, and none.
WideArgLists ==
    {<<Abs(<<"p", "f">>), Abs(<<"q", "f">>), Abs(<<"p", "k">>), Abs(<<"d">>)>>,
     <<Abs(<<"p", "f">>), Abs(<<"p", "k">>), Abs(<<"q">>), Abs(<<"d">>)>>}
Scenarios ==
    {[world |-> BaseWorld, args |-> a] : a \in ArgLists \cup WideArgLists}
        \cup {[world |-> w, args |-> a] : w \in Worlds, a \in TreeArgLists}
\* The scenarios whose every behaviour is followed to its end: all of them, a
\* directory copied to a path inside itself in the base world only.
LiveScenarios ==
    {sc \in Scenarios :
        \/ sc.world = BaseWorld
        \/ ~(/\ sc.args[1] = Abs(<<"p">>)
              /\ IsPrefix(<<"p">>, AbsComps(sc.args[Len(sc.args)])))}

Task(src, ty, dst, parent) ==
    [src |-> src, ty |-> ty, dst |-> dst, parent |-> parent,
     st |-> "ready", err |-> FALSE, hasErr |-> FALSE]

\* An invocation about to start in one of the scenarios of S.
InitIn(S) ==
    /\ \E sc \in S : fs = sc.world /\ args = sc.args
    /\ fs0 = fs
    /\ pc = "fcp"
    /\ mode = "into"
    /\ sources = <<>>
    /\ dest = Rel(<<>>)
    /\ tasks = <<>>
    /\ stderr = {}
    /\ result = FALSE
    /\ reason = ""
    /\ lines = <<>>
    /\ runs = <<>>

Init == InitIn(Scenarios)

\* fatal(message): the message is printed and the process exits with status 1.
Fatal(why, msg) ==
    /\ pc' = "fatal"
    /\ reason' = why
    /\ lines' = msg

------------------------------------------------------------------------------
(* Copy Orchestrator *)

\* fcp(args)
Fcp ==
    /\ pc = "fcp"
    /\ IF Len(args) < 2
       THEN /\ Fatal("args", << <<"usage">> >>)
            /\ UNCHANGED <<sources, dest>>
       ELSE /\ sources' = SubSeq(args, 1, Len(args) - 1)
            /\ dest' = args[Len(args)]
            /\ pc' = IF Len(args) = 2 THEN "copy_single" ELSE "copy_into"
            /\ UNCHANGED <<reason, lines>>
    /\ UNCHANGED <<fs, fs0, args, mode, tasks, stderr, result, runs>>

\* The match of copy_single: "stat" (the source cannot be queried), "into"
\* (dest is a directory), "overwrite" (dest is the source itself), "file".
CopySingleBranch(f, source, dst) ==
    LET sm == SymlinkMetadata(f, source)
        md == Metadata(f, dst)
        sd == SymlinkMetadata(f, dst)
    IN  IF sm = 0 THEN "stat"
        ELSE IF md # 0 /\ f[md].type = "Directory" THEN "into"
        ELSE IF sd # 0 /\ f[sm].ino = f[sd].ino THEN "overwrite"
        ELSE "file"

\* copy_single(source, dest)
CopySingle ==
    /\ pc = "copy_single"
    /\ LET b == CopySingleBranch(fs, sources[1], dest) IN
       CASE b = "stat" ->
              /\ Fatal("stat", << <<"stat", sources[1]>> >>)
              /\ UNCHANGED <<mode, tasks>>
         [] b = "into" ->
              /\ pc' = "copy_into"
              /\ UNCHANGED <<mode, tasks, reason, lines>>
         [] b = "overwrite" ->
              /\ Fatal("overwrite", << <<"overwrite", sources[1], dest>> >>)
              /\ UNCHANGED <<mode, tasks>>
         [] OTHER ->
              /\ pc' = "par"
              /\ mode' = "single"
              /\ tasks' = <<Task(sources[1], "Unresolved", dest, 0)>>
              /\ UNCHANGED <<reason, lines>>
    /\ UNCHANGED <<fs, fs0, args, sources, dest, stderr, result, runs>>

\* The pre-flight checks with the destination's own metadata never looked at.
CopyIntoCheckNoDest(f, srcs, dst, cwdOk, bad) ==
    LET guard == RejectSelfCopies(f, srcs, dst, cwdOk, bad)
        fnames == FileNames(srcs)
    IN  IF ~guard.ok THEN [why |-> "guard", lines |-> guard.lines, names |-> <<>>]
        ELSE IF ~fnames.ok THEN [why |-> "names", lines |-> fnames.lines, names |-> <<>>]
        ELSE [why |-> "", lines |-> <<>>, names |-> fnames.names]

\* The pre-flight checks of copy_into, in the order the code makes them: the
\* fatal condition met ("" for none), its message, and the sources' names.
CopyIntoCheck(f, srcs, dst, cwdOk, bad) ==
    LET md == Metadata(f, dst)
        guard == RejectSelfCopies(f, srcs, dst, cwdOk, bad)
        fnames == FileNames(srcs)
    IN  IF md = 0 THEN [why |-> "dest", lines |-> << <<"stat", dst>> >>, names |-> <<>>]
        ELSE IF f[md].type # "Directory"
        THEN [why |-> "notdir", lines |-> << <<"notdir", dst>> >>, names |-> <<>>]
        ELSE IF ~guard.ok THEN [why |-> "guard", lines |-> guard.lines, names |-> <<>>]
        ELSE IF ~fnames.ok THEN [why |-> "names", lines |-> fnames.lines, names |-> <<>>]
        ELSE [why |-> "", lines |-> <<>>, names |-> fnames.names]

\* The tasks of copy_into with every source sent to dest itself, the join forgotten.
TopTasksNoJoin(srcs, dst, names) ==
    [i \in 1..Len(srcs) |-> Task(srcs[i], "Unresolved", dst, 0)]

\* The tasks copy_into maps over its sources: each goes to dest.join(file_name).
TopTasks(srcs, dst, names) ==
    [i \in 1..Len(srcs) |-> Task(srcs[i], "Unresolved", PathJoin(dst, names[i]), 0)]

\* copy_into with the names checked only once the tasks are handed to the pool.
CopyIntoLateNames ==
    /\ pc = "copy_into"
    /\ \E cwdOk \in BOOLEAN, bad \in 0..(MaxDepth + 1) :
          LET c == CopyIntoCheck(fs, sources, dest, cwdOk, bad) IN
          IF c.why # ""
          THEN /\ Fatal(c.why, c.lines)
               /\ mode' = mode
               /\ tasks' = IF c.why = "names"
                           THEN [i \in 1..Len(sources) |->
                                    Task(sources[i], "Unresolved", dest, 0)]
                           ELSE tasks
          ELSE /\ pc' = "par"
               /\ mode' = "into"
               /\ tasks' = TopTasks(sources, dest, c.names)
               /\ UNCHANGED <<reason, lines>>
    /\ UNCHANGED <<fs, fs0, args, sources, dest, stderr, result, runs>>

\* copy_into(sources, dest), up to the parallel dispatch of copy_file
CopyInto ==
    /\ pc = "copy_into"
    /\ \E cwdOk \in BOOLEAN, bad \in 0..(MaxDepth + 1) :
          LET c == CopyIntoCheck(fs, sources, dest, cwdOk, bad) IN
          IF c.why # ""
          THEN /\ Fatal(c.why, c.lines)
               /\ UNCHANGED <<mode, tasks>>
          ELSE /\ pc' = "par"
               /\ mode' = "into"
               /\ tasks' = TopTasks(sources, dest, c.names)
               /\ UNCHANGED <<reason, lines>>
    /\ UNCHANGED <<fs, fs0, args, sources, dest, stderr, result, runs>>

------------------------------------------------------------------------------
(* Copy tasks: copy_file and copy_directory, run in parallel *)

TaskIds == 1..Len(tasks)
Children(ts, t) == {c \in 1..Len(ts) : ts[c].parent = t}
\* The flags of the sub-tasks of t (of the top-level tasks for t = 0), in task order.
ChildFlags(ts, t) ==
    LET cs == SelectSeq([i \in 1..Len(ts) |-> i], LAMBDA c : ts[c].parent = t)
    IN  [i \in 1..Len(cs) |-> ts[cs[i]].err]
\* The type a task copies by: a top-level task resolves it (fs::file_type) as it
\* starts, a listed child carries the type its directory entry gave.
TypeOf(f, task) == IF task.ty = "Unresolved" THEN FsFileType(f, task.src) ELSE task.ty

\* A task ends: its flag is set and, for a failure of its own, the error printed.
Finish(t, ty, err, printed) ==
    /\ tasks' = [tasks EXCEPT ![t].st = "done", ![t].ty = ty, ![t].err = err]
    /\ stderr' = IF printed THEN stderr \cup {<<"copy", t>>} ELSE stderr

\* copy_file on a source that is not a directory
CopyFile(t) ==
    /\ pc = "par"
    /\ tasks[t].st = "ready"
    /\ TypeOf(fs, tasks[t]) # "Directory"
    /\ LET ty == TypeOf(fs, tasks[t])
           r == CopyFileOp(fs, tasks[t].src, ty, tasks[t].dst)
       IN  /\ fs' = r.fs
           /\ Finish(t, ty, ~r.ok, ~r.ok)
    /\ UNCHANGED <<fs0, args, pc, mode, sources, dest, result, reason, lines, runs>>

\* copy_directory, its first line: the destination directory is created with
\* the source's permission bits
CreateDir(t) ==
    /\ pc = "par"
    /\ tasks[t].st = "ready"
    /\ TypeOf(fs, tasks[t]) = "Directory"
    /\ LET sm == SymlinkMetadata(fs, tasks[t].src)
           r == IF sm = 0 THEN Failed(fs)
                ELSE FsCreateDir(fs, tasks[t].dst, fs[sm].mode)
       IN  /\ fs' = r.fs
           /\ IF r.ok
              THEN /\ tasks' = [tasks EXCEPT ![t].st = "created", ![t].ty = "Directory"]
                   /\ UNCHANGED stderr
              ELSE Finish(t, "Directory", TRUE, TRUE)
    /\ UNCHANGED <<fs0, args, pc, mode, sources, dest, result, reason, lines, runs>>

\* The tasks of copy_directory with the first entry listed left out.
ChildTasksSkipFirst(f, task, t, names) ==
    [i \in 1..(Len(names) - 1) |->
        Task(PathJoin(task.src, names[i + 1]),
             EntryFileType(f, f[Metadata(f, task.src)].entries[names[i + 1]]),
             PathJoin(task.dst, names[i + 1]), t)]

\* The tasks of copy_directory with every entry sent to the first entry's path.
ChildTasksOneName(f, task, t, names) ==
    [i \in 1..Len(names) |->
        Task(PathJoin(task.src, names[i]),
             EntryFileType(f, f[Metadata(f, task.src)].entries[names[i]]),
             PathJoin(task.dst, names[1]), t)]

\* The tasks copy_directory maps over the entries it listed.
ChildTasks(f, task, t, names) ==
    [i \in 1..Len(names) |->
        Task(PathJoin(task.src, names[i]),
             EntryFileType(f, f[Metadata(f, task.src)].entries[names[i]]),
             PathJoin(task.dst, names[i]), t)]

\* copy_directory, the listing: every entry read becomes a task, an entry that
\* cannot be read is printed and sets has_err
ReadDir(t) ==
    /\ pc = "par"
    /\ tasks[t].st = "created"
    /\ LET r == FsReadDir(fs, tasks[t].src) IN
       IF ~r.ok
       THEN Finish(t, "Directory", TRUE, TRUE)
       ELSE /\ tasks' = [tasks EXCEPT ![t].st = "waiting", ![t].hasErr = r.entryErr]
                           \o ChildTasks(fs, tasks[t], t, r.names)
            /\ stderr' = IF r.entryErr THEN stderr \cup {<<"list", t>>} ELSE stderr
    /\ UNCHANGED <<fs, fs0, args, pc, mode, sources, dest, result, reason, lines, runs>>

\* A reduction that stops at the first failing sub-task (try_reduce).
JoinReadyShortCircuit(ts, t) ==
    \/ \A c \in Children(ts, t) : ts[c].st = "done"
    \/ \E c \in Children(ts, t) : ts[c].st = "done" /\ ts[c].err

\* A join that waits for every sub-task to succeed.
JoinReadyOnSuccess(ts, t) ==
    \A c \in Children(ts, t) : ts[c].st = "done" /\ ~ts[c].err

\* A join that returns with the first sub-task to finish (a select, not a join).
JoinReadyFirstDone(ts, t) ==
    Children(ts, t) = {} \/ \E c \in Children(ts, t) : ts[c].st = "done"

\* The parallel map of a directory has a result once every sub-task has one.
JoinReady(ts, t) == \A c \in Children(ts, t) : ts[c].st = "done"

\* copy_directory returns the reduction of its sub-tasks' flags
Join(t) ==
    /\ pc = "par"
    /\ tasks[t].st = "waiting"
    /\ JoinReady(tasks, t)
    /\ tasks' = [tasks EXCEPT ![t].st = "done",
                              ![t].err = Reduce(tasks[t].hasErr, ChildFlags(tasks, t))]
    /\ UNCHANGED <<fs, fs0, args, pc, mode, sources, dest, stderr, result, reason, lines, runs>>

\* fcp returns: copy_file's flag (copy_single) or the reduction over the sources
Return ==
    /\ pc = "par"
    /\ JoinReady(tasks, 0)
    /\ pc' = "returned"
    /\ result' = IF mode = "single" THEN tasks[1].err
                 ELSE Reduce(FALSE, ChildFlags(tasks, 0))
    /\ UNCHANGED <<fs, fs0, args, mode, sources, dest, tasks, stderr, reason, lines, runs>>

\* main: the program is run again with the same arguments once an invocation
\* has returned; the new process starts from the filesystem the last one left.
Rerun ==
    /\ pc = "returned"
    /\ Len(runs) < MaxRuns - 1
    /\ runs' = Append(runs, [start |-> fs0, fs |-> fs, result |-> result])
    /\ fs0' = fs
    /\ pc' = "fcp"
    /\ mode' = "into"
    /\ sources' = <<>>
    /\ dest' = Rel(<<>>)
    /\ tasks' = <<>>
    /\ stderr' = {}
    /\ result' = FALSE
    /\ UNCHANGED <<fs, args, reason, lines>>

Next ==
    \/ Fcp
    \/ CopySingle
    \/ CopyInto
    \/ \E t \in TaskIds : CopyFile(t)
    \/ \E t \in TaskIds : CreateDir(t)
    \/ \E t \in TaskIds : ReadDir(t)
    \/ \E t \in TaskIds : Join(t)
    \/ Return
    \/ Rerun

Spec == Init /\ [][Next]_vars

\* A step of the invocation itself: the calling thread or a worker of the pool.
Step ==
    \/ Fcp
    \/ CopySingle
    \/ CopyInto
    \/ \E t \in TaskIds : CopyFile(t)
    \/ \E t \in TaskIds : CreateDir(t)
    \/ \E t \in TaskIds : ReadDir(t)
    \/ \E t \in TaskIds : Join(t)
    \/ Return
\* One invocation on its own.  The pool runs every task handed to it: while the
\* invocation can take a step it eventually takes one.
FairSpec == InitIn(LiveScenarios) /\ [][Step]_vars /\ WF_vars(Step)

------------------------------------------------------------------------------
(* Properties *)

Running == pc \in {"par", "returned"}
\* The sources and destination the arguments name.
ArgSources == SubSeq(args, 1, Len(args) - 1)
ArgDest == args[Len(args)]
\* Fan-in mode: several sources, or one source and a destination directory.
FanIn ==
    \/ Len(args) >= 3
    \/ /\ Len(args) = 2
       /\ SymlinkMetadata(fs0, args[1]) # 0
       /\ FsFileType(fs0, args[2]) = "Directory"

\* Task u belongs to the sub-tree of task t.
RECURSIVE Under(_, _)
Under(u, t) == u = t \/ (tasks[u].parent # 0 /\ Under(tasks[u].parent, t))
\* An error was printed by a task of t's sub-tree.
Printed(t) == \E m \in stderr : Under(m[2], t)

\* C1: the flag a finished copy_file / copy_directory call returns is true exactly
\* when a task of its sub-tree failed or printed a listing error, and the boolean
\* fcp returns is true exactly when any error was printed in the whole walk.
C1_FlagIffErrorPrinted ==
    /\ \A t \in TaskIds : tasks[t].st = "done" => (tasks[t].err <=> Printed(t))
    /\ pc = "returned" => (result <=> stderr # {})
\* A run returned true for a failure two levels down, with a listing error elsewhere
\* or not: a nested task failed and fcp's flag reports it.
C1_Witness ==
    /\ pc = "returned"
    /\ result
    /\ \E m \in stderr : m[1] = "copy" /\ tasks[m[2]].parent # 0
                            /\ tasks[tasks[m[2]].parent].parent # 0

\* What a successful task leaves at its destination.
Copied(f, task) ==
    LET d == SymlinkMetadata(f, task.dst)
        s == SymlinkMetadata(f, task.src)
    IN  /\ d # 0
        /\ s # 0
        /\ f[d].type = IF task.ty \in {"CharacterDevice", "BlockDevice"}
                       THEN "Regular" ELSE task.ty
        /\ task.ty = "Regular" => f[d].data = f[s].data /\ f[d].mode = f[s].mode
        /\ task.ty = "Symlink" => f[d].target = f[s].target

\* C2: once a directory's copy has returned, every child it listed has run to its
\* end; a failed child makes the directory's result true; and every child that did
\* not fail is at the destination, whatever its siblings did.
C2_PartialFailureIndependence ==
    \A t \in TaskIds :
        tasks[t].st = "done" =>
            \A c \in Children(tasks, t) :
                /\ tasks[c].st = "done"
                /\ tasks[c].err => tasks[t].err
                /\ ~tasks[c].err => Copied(fs, tasks[c])
\* A directory returned with one child failed and another copied.
C2_Witness ==
    \E t \in TaskIds :
        /\ tasks[t].st = "done"
        /\ \E c, e \in Children(tasks, t) :
              /\ tasks[c].err
              /\ ~tasks[e].err
              /\ Copied(fs, tasks[e])

\* Two sources share a final component, or a source has none.
SameName(srcs) ==
    \E i, j \in 1..Len(srcs) :
        i # j /\ FileName(srcs[i]) # <<>> /\ FileName(srcs[i]) = FileName(srcs[j])
NoName(srcs) == \E i \in 1..Len(srcs) : FileName(srcs[i]) = <<>>

\* C5: in fan-in mode, sources sharing a final component, or a source with none,
\* end the run fatally before any task starts: nothing is copied; the fatal exit is
\* the Name-Collision Checker's unless an earlier pre-flight check made it.
C5_CollisionFatalBeforeCopy ==
    (FanIn /\ (SameName(ArgSources) \/ NoName(ArgSources))) =>
        /\ ~Running
        /\ tasks = <<>>
        /\ fs = fs0
        /\ pc = "fatal" => reason \in {"dest", "notdir", "guard", "names"}
        /\ (pc = "fatal" /\ FsFileType(fs0, ArgDest) = "Directory" /\ reason # "guard")
              => reason = "names"
\* Three sources, two of them colliding: the checker ended the run and the third,
\* colliding with nothing, was not copied either.
C5_Witness ==
    /\ pc = "fatal"
    /\ reason = "names"
    /\ Len(sources) = 3
    /\ SameName(sources)
    /\ \E i \in 1..3 : \A j \in 1..3 : j # i => FileName(sources[j]) # FileName(sources[i])
    /\ fs = fs0

\* C8: a run that ended in a fatal exit started no copy task, printed no per-item
\* error and wrote nothing.
C8_NoPartialWorkOnFatal ==
    pc = "fatal" => tasks = <<>> /\ stderr = {} /\ fs = fs0
\* A fatal exit of the last pre-flight check before the dispatch.
C8_Witness ==
    pc = "fatal" /\ reason = "names" /\ tasks = <<>> /\ Len(args) = 3

\* A source directory whose identity is that of dest or of an ancestor of dest,
\* dest and its ancestors resolved through symbolic links.
DirIntoItself ==
    /\ Len(args) >= 2
    /\ \E i \in 1..Len(ArgSources) :
          LET s == SymlinkMetadata(fs0, ArgSources[i])
              anc == Ancestors(Abs(AbsComps(ArgDest)))
          IN  /\ s # 0
              /\ fs0[s].type = "Directory"
              /\ \E k \in 1..Len(anc) :
                    /\ Metadata(fs0, anc[k]) # 0
                    /\ UniqueId(fs0, Metadata(fs0, anc[k])) = UniqueId(fs0, s)

\* C3: a directory copied into itself (its identity is that of dest or of an
\* ancestor of dest) ends the run fatally before any task starts, the filesystem
\* unchanged.
C3_DirIntoItselfFatal == DirIntoItself => ~Running /\ fs = fs0

\* The path a source is copied to: dest/<name> under a destination directory, dest
\* itself otherwise.
DestFor(src) ==
    IF FsFileType(fs0, ArgDest) = "Directory" /\ FileName(src) # <<>>
    THEN PathJoin(ArgDest, FileName(src)[1])
    ELSE ArgDest
\* A regular-file source whose destination path resolves to the source's own inode.
FileOntoItself ==
    /\ Len(args) >= 2
    /\ \E i \in 1..Len(ArgSources) :
          LET s == SymlinkMetadata(fs0, ArgSources[i]) IN
          /\ s # 0
          /\ fs0[s].type = "Regular"
          /\ Metadata(fs0, DestFor(ArgSources[i])) = s

\* C4: a regular file copied onto itself (the same path, a hard link, a symbolic
\* link to it, or dest/<name> being the file) ends the run fatally before any task
\* starts, the file unmodified.
C4_FileOntoItselfFatal == FileOntoItself => ~Running /\ fs = fs0

P_ == Abs(<<"p">>)
Q_ == Abs(<<"q">>)
D_ == Abs(<<"d">>)
\* The file `name` of source directory `src` is under dest/<final component of src>
\* with its content.
ChildCopied(src, name) ==
    LET s == Metadata(fs0, PathJoin(src, name))
        d == Metadata(fs, PathJoin(PathJoin(D_, FileName(src)[1]), name))
    IN  d # 0 /\ fs[d].type = "Regular" /\ fs[d].data = fs0[s].data

\* C6 as stated: fcp [dir1, dir2, dest/], both directories holding a file of the
\* same name, ends in a fatal name-collision error and dest/ is untouched.
C6_OriginalNameCollision ==
    args = <<P_, Q_, D_>> =>
        /\ ~Running
        /\ fs = fs0
        /\ pc = "fatal" => reason = "names"
\* C6, amended: fcp [dir1, dir2, dest/] is no name collision, the sources' own final
\* components differ: file_names never ends the run, and when fcp returns every
\* readable shared file is at dest/dir1/ and dest/dir2/ under its name, fcp returning
\* false when nothing in the two trees fails to copy.
C6_BothTreesCopied ==
    args = <<P_, Q_, D_>> =>
        /\ reason # "names"
        /\ pc = "fatal" => reason = "guard"
        /\ pc = "returned" =>
              /\ \A src \in {P_, Q_} :
                    Readable(fs0[Metadata(fs0, PathJoin(src, "f"))]) => ChildCopied(src, "f")
              /\ fs0 = BaseWorld => ~result
C6_Witness ==
    /\ args = <<P_, Q_, D_>>
    /\ pc = "returned"
    /\ ~result
    /\ ChildCopied(P_, "f")
    /\ ChildCopied(Q_, "f")

\* A source that cannot be stat'ed, among several fanned into an existing directory.
MissingSource == \E i \in 1..Len(ArgSources) : SymlinkMetadata(fs0, ArgSources[i]) = 0
SeveralIntoDirectory == Len(args) >= 3 /\ FsFileType(fs0, ArgDest) = "Directory"

\* C7 as stated: with one source missing and the others copyable, the run is not
\* fatal: fcp returns true and every other source is copied.
C7_OriginalMissingSourceRecoverable ==
    (SeveralIntoDirectory /\ MissingSource) =>
        /\ pc # "fatal"
        /\ pc = "returned" => result
\* C7, amended: a source that cannot be stat'ed is fatal at the top level: in a
\* fan-in run of several sources into an existing directory the Self-Copy Guard
\* reports the failed query and the run ends fatally before any task starts; no
\* source is copied.
C7_MissingSourceFatal ==
    (SeveralIntoDirectory /\ MissingSource) =>
        /\ ~Running
        /\ tasks = <<>>
        /\ fs = fs0
        /\ pc = "fatal" => reason = "guard"
C7_Witness ==
    /\ SeveralIntoDirectory
    /\ pc = "fatal"
    /\ reason = "guard"
    /\ \E i, j \in 1..Len(sources) :
          /\ SymlinkMetadata(fs0, sources[i]) = 0
          /\ <<"stat", sources[i]>> \in {lines[k] : k \in 1..Len(lines)}
          /\ FsFileType(fs0, sources[j]) = "Regular"
    /\ fs = fs0

\* C9: with one source S and destination D: when D is a directory S goes to
\* D/<final component of S>; when D does not exist, or is a non-directory whose
\* identity is not S's, the run is not fatal and S goes to D itself; a.txt copied to
\* an absent b.txt, or into the directory dir/, gives the copy and returns false.
C9_DestinationMode ==
    (Len(args) = 2 /\ SymlinkMetadata(fs0, args[1]) # 0) =>
        LET sm == SymlinkMetadata(fs0, args[1])
            sd == SymlinkMetadata(fs0, args[2])
            isDir == FsFileType(fs0, args[2]) = "Directory"
        IN  /\ (isDir /\ Running) =>
                  tasks[1].dst = PathJoin(args[2], FileName(args[1])[1])
            /\ (~isDir /\ (sd = 0 \/ UniqueId(fs0, sd) # UniqueId(fs0, sm))) =>
                  /\ pc # "fatal"
                  /\ Running => tasks[1].dst = args[2]
            /\ (pc = "returned" /\ fs0[sm].type = "Regular" /\ Readable(fs0[sm])
                    /\ (args[2] = Abs(<<"n">>) \/ args[2] = D_)
                    /\ SymlinkMetadata(fs0, DestFor(args[1])) = 0) =>
                  /\ ~result
                  /\ Metadata(fs, DestFor(args[1])) # 0
                  /\ fs[Metadata(fs, DestFor(args[1]))].data = fs0[sm].data

Devices == {"CharacterDevice", "BlockDevice"}
\* The tree at node b of g is the tree at node a of f: names, types, content, mode
\* bits and link targets.  exact: a device node must be a device node again;
\* otherwise it is a regular file holding the bytes read from the device.
RECURSIVE Iso(_, _, _, _, _)
Iso(f, a, g, b, exact) ==
    LET x == f[a]
        y == g[b]
    IN  /\ y.type = IF ~exact /\ x.type \in Devices THEN "Regular" ELSE x.type
        /\ x.type = "Regular" => y.data = x.data /\ y.mode = x.mode
        /\ (~exact /\ x.type \in Devices) => y.data = x.data /\ y.mode = x.mode
        /\ (~exact /\ x.type \in {"Fifo", "Directory"}) => y.mode = x.mode
        /\ x.type = "Symlink" => y.target = x.target
        /\ x.type = "Directory" =>
              \A n \in Names :
                  /\ x.entries[n] = 0 <=> y.entries[n] = 0
                  /\ x.entries[n] # 0 => Iso(f, x.entries[n], g, y.entries[n], exact)
RECURSIVE HasSocket(_, _)
HasSocket(f, a) ==
    \/ f[a].type = "Socket"
    \/ \E n \in Names : f[a].entries[n] # 0 /\ HasSocket(f, f[a].entries[n])
\* One source, a directory tree without sockets, and a destination that does not exist.
TreeToNewPath ==
    /\ Len(args) = 2
    /\ SymlinkMetadata(fs0, args[1]) # 0
    /\ fs0[SymlinkMetadata(fs0, args[1])].type = "Directory"
    /\ ~HasSocket(fs0, SymlinkMetadata(fs0, args[1]))
    /\ SymlinkMetadata(fs0, args[2]) = 0

\* C10 as stated: copying a directory tree A to a non-existent path B leaves at B a
\* tree with A's structure, names and the same file type at every node, regular
\* files with their content and mode bits.
C10_OriginalIsomorphic ==
    (TreeToNewPath /\ pc = "returned") =>
        /\ SymlinkMetadata(fs, args[2]) # 0
        /\ Iso(fs0, SymlinkMetadata(fs0, args[1]), fs, SymlinkMetadata(fs, args[2]), TRUE)
\* C10, amended: when the copy of A to a non-existent B returns false, B holds a tree
\* with A's structure and names; regular files keep content and mode bits,
\* directories and FIFOs their mode bits, symbolic links their target; a character
\* or block device is not a device at B but a regular file with the bytes read
\* from it and its mode bits.
C10_IsomorphicButDevices ==
    (TreeToNewPath /\ pc = "returned" /\ ~result) =>
        /\ SymlinkMetadata(fs, args[2]) # 0
        /\ Iso(fs0, SymlinkMetadata(fs0, args[1]), fs, SymlinkMetadata(fs, args[2]), FALSE)
C10_Witness ==
    /\ TreeToNewPath
    /\ pc = "returned"
    /\ ~result
    /\ \E t \in TaskIds : tasks[t].ty \in Devices /\ tasks[t].parent # 0
    /\ Iso(fs0, SymlinkMetadata(fs0, args[1]), fs, SymlinkMetadata(fs, args[2]), FALSE)

\* C11: with two or more sources and a dest that does not exist or is not a
\* directory, the run ends fatally on the destination check, no task starts and
\* nothing is written; and in a run of several sources no task is ever given dest
\* itself as its destination: dest existed as a directory before the run.
C11_FanInNeedsDirectory ==
    Len(args) >= 3 =>
        /\ FsFileType(fs0, ArgDest) # "Directory" =>
              /\ ~Running
              /\ tasks = <<>>
              /\ fs = fs0
              /\ pc = "fatal" => reason = IF Metadata(fs0, ArgDest) = 0 THEN "dest"
                                          ELSE "notdir"
        /\ Running =>
              /\ FsFileType(fs0, ArgDest) = "Directory"
              /\ \A t \in TaskIds : tasks[t].dst # ArgDest
\* Two copyable sources and a dest that is a regular file: fatal, nothing written.
C11_Witness ==
    /\ Len(args) = 3
    /\ pc = "fatal"
    /\ reason = "notdir"
    /\ FsFileType(fs0, ArgDest) = "Regular"
    /\ \A i \in 1..2 : FsFileType(fs0, args[i]) = "Regular"
    /\ args[1] # args[2]
    /\ fs = fs0
\* Two copyable sources and a dest that does not exist: fatal, dest still absent.
C11_WitnessAbsent ==
    /\ Len(args) = 3
    /\ pc = "fatal"
    /\ reason = "dest"
    /\ SymlinkMetadata(fs, ArgDest) = 0

\* The filesystem the first invocation started from.
FirstStart == IF runs = <<>> THEN fs0 ELSE runs[1].start
\* fcp [A, B]: A a regular file, B absent or a regular file that is not A.
SingleFileCopy ==
    /\ Len(args) = 2
    /\ LET a == SymlinkMetadata(FirstStart, args[1])
           b == SymlinkMetadata(FirstStart, args[2])
       IN  /\ a # 0
           /\ FirstStart[a].type = "Regular"
           /\ b # 0 => /\ FirstStart[b].type = "Regular"
                       /\ UniqueId(FirstStart, b) # UniqueId(FirstStart, a)
\* B is a regular file with A's content and mode bits.
HoldsCopy(f) ==
    LET a == SymlinkMetadata(f, args[1])
        b == SymlinkMetadata(f, args[2])
    IN  /\ b # 0
        /\ f[b].type = "Regular"
        /\ f[b].data = f[a].data
        /\ f[b].mode = f[a].mode

C12_WitnessReadOnly ==
    /\ SingleFileCopy
    /\ Len(runs) = 1
    /\ ~runs[1].result
    /\ pc = "returned"
    /\ result
    /\ fs = runs[1].fs

Terminated == pc \in {"fatal", "returned"}
C13_WitnessLink ==
    /\ args = <<Abs(<<"l">>), Abs(<<"p", "n">>)>>
    /\ fs0[SymlinkMetadata(fs0, args[1])].type = "Symlink"
    /\ pc = "returned"
    /\ \E t \in TaskIds : tasks[t].parent # 0 /\ tasks[t].st = "done"

\* One source that can be queried and a dest that exists and is not a directory.
SingleOntoExisting ==
    /\ Len(args) = 2
    /\ SymlinkMetadata(fs0, args[1]) # 0
    /\ SymlinkMetadata(fs0, args[2]) # 0
    /\ FsFileType(fs0, args[2]) # "Directory"

\* C14: with one source and a dest that exists and is not a directory, the run is
\* fatal exactly when dest's (device, inode) pair, taken without following
\* symbolic links, equals the source's: equal pairs start no copy, and a dest that
\* differs in device only is not refused but overwritten.
C14_OverwriteRefusedOnIdentity ==
    SingleOntoExisting =>
        LET same == UniqueId(fs0, SymlinkMetadata(fs0, args[1]))
                        = UniqueId(fs0, SymlinkMetadata(fs0, args[2]))
        IN  /\ same => ~Running
            /\ ~same => pc # "fatal"
            /\ (~same /\ pc = "returned" /\ ~result
                    /\ fs0[SymlinkMetadata(fs0, args[1])].type = "Regular"
                    /\ fs0[SymlinkMetadata(fs0, args[2])].type = "Regular") => HoldsCopy(fs)

\* The ancestors of dest the Self-Copy Guard examines, and the prefix it strips.
GuardAncestors == Ancestors(Abs(AbsComps(ArgDest)))
GuardPrefix == IF IsRelative(ArgDest) THEN Abs(CurrentDir) ELSE Rel(<<>>)
\* The (source, ancestor) pairs of equal identity.
GuardPairs ==
    {pr \in (1..Len(ArgSources)) \X (1..Len(GuardAncestors)) :
        /\ SymlinkMetadata(fs0, ArgSources[pr[1]]) # 0
        /\ Metadata(fs0, GuardAncestors[pr[2]]) # 0
        /\ UniqueId(fs0, SymlinkMetadata(fs0, ArgSources[pr[1]]))
              = UniqueId(fs0, Metadata(fs0, GuardAncestors[pr[2]]))}
PairLine(pr) ==
    <<"self", ArgSources[pr[1]], StripPrefix(GuardAncestors[pr[2]], GuardPrefix)>>

\* How often a line is in the error, and how many pairs it is the line of.
LineCount(line) == Cardinality({j \in 1..Len(lines) : lines[j] = line})
PairCount(line) == Cardinality({pr \in GuardPairs : PairLine(pr) = line})

\* C15: the error of the Self-Copy Guard holds exactly one line for every (source,
\* ancestor) pair of equal identity, whether or not an ancestor's query failed,
\* besides these only lines for ancestors whose query failed, and no line more
\* often than there are pairs (or failed ancestors) it is the line of.
C15_GuardCollectsEveryLine ==
    (pc = "fatal" /\ reason = "guard" /\ lines # << <<"cwd">> >>) =>
        /\ \A pr \in GuardPairs : LineCount(PairLine(pr)) = PairCount(PairLine(pr))
        /\ \A j \in 1..Len(lines) :
              \/ \E pr \in GuardPairs : lines[j] = PairLine(pr)
              \/ /\ \E k \in 1..Len(GuardAncestors) : lines[j] = <<"stat", GuardAncestors[k]>>
                 /\ LineCount(lines[j]) = 1
\* The first part alone: a failed ancestor query discards no violation.
C15_NoViolationDiscarded ==
    (pc = "fatal" /\ reason = "guard" /\ lines # << <<"cwd">> >>) =>
        \A pr \in GuardPairs : \E j \in 1..Len(lines) : lines[j] = PairLine(pr)
\* The last part alone: no line is reported more than once.
C15_NoLineTwice ==
    (pc = "fatal" /\ reason = "guard") =>
        \A j \in 1..Len(lines) :
            LineCount(lines[j]) <= IF PairCount(lines[j]) = 0 THEN 1 ELSE PairCount(lines[j])

\* The destination enclosing task t: dest at the top level, else its directory's.
Enclosing(t) == IF tasks[t].parent = 0 THEN dest ELSE tasks[tasks[t].parent].dst
\* The task's destination is the enclosing one joined with its source's final name.
JoinedDst(t) ==
    /\ FileName(tasks[t].src) # <<>>
    /\ tasks[t].dst = PathJoin(Enclosing(t), FileName(tasks[t].src)[1])
UniqueDst == \A t, u \in TaskIds : t # u => tasks[t].dst # tasks[u].dst

\* C16 as stated: no two tasks have the same destination, and every task's
\* destination is its enclosing destination joined with its source's final name.
C16_OriginalEveryDstJoined ==
    /\ UniqueDst
    /\ \A t \in TaskIds : JoinedDst(t)
\* C16, amended: no two tasks of an invocation have the same destination path; the
\* destination of every task of fan-in mode and of every child of a directory is
\* the enclosing destination joined with the final component of its source, a
\* child's source being its directory's source joined with that name; the one task
\* copy_single dispatches itself has dest as its destination, whatever the name.
C16_UniqueDestinations ==
    /\ UniqueDst
    /\ \A t \in TaskIds :
          /\ (tasks[t].parent # 0 \/ mode = "into") => JoinedDst(t)
          /\ tasks[t].parent # 0 =>
                tasks[t].src = PathJoin(tasks[tasks[t].parent].src,
                                        FileName(tasks[t].dst)[1])
          /\ (tasks[t].parent = 0 /\ mode = "single") =>
                Len(tasks) >= 1 /\ t = 1 /\ tasks[t].dst = dest
\* Two sources fanned in, one a directory whose children and grandchildren have
\* their tasks, all on different paths.
C16_Witness ==
    /\ mode = "into"
    /\ Cardinality(Children(tasks, 0)) >= 2
    /\ \E t, u \in TaskIds :
          /\ tasks[u].parent = t
          /\ tasks[t].parent # 0
          /\ Cardinality(Children(tasks, tasks[t].parent)) >= 2
    /\ UniqueDst

\* The directory at the destination of task t was created in this invocation.
MadeDir(t) ==
    LET d == SymlinkMetadata(fs, tasks[t].dst) IN
    d > Len(fs0) /\ fs[d].type = "Directory"
Siblings(t) == {s \in TaskIds : s # t /\ tasks[s].parent = tasks[t].parent}

\* C17: a directory whose destination could not be created (it exists already,
\* or has no parent to be made in) is never listed: it has no sub-task, its error
\* is printed and its flag is true, the run is not ended, and its siblings run all
\* the same, every sibling that did not fail being copied; a directory that was
\* listed, or whose copy succeeded, had its destination created by this run.
C17_UncreatableDirectoryFails ==
    \A t \in TaskIds :
        tasks[t].ty = "Directory" =>
            /\ (tasks[t].st \in {"created", "waiting"} \/ Children(tasks, t) # {}
                   \/ (tasks[t].st = "done" /\ ~tasks[t].err)) => MadeDir(t)
            /\ (tasks[t].st = "done" /\ ~MadeDir(t)) =>
                  /\ tasks[t].err
                  /\ <<"copy", t>> \in stderr
                  /\ Children(tasks, t) = {}
                  /\ pc # "fatal"
                  /\ pc = "returned" => result
                  /\ \A s \in Siblings(t) :
                        (tasks[s].st = "done" /\ ~tasks[s].err) => Copied(fs, tasks[s])
\* A directory whose destination existed already failed without being listed,
\* while a sibling was copied, and fcp returned true.
C17_Witness ==
    /\ pc = "returned"
    /\ result
    /\ \E t \in TaskIds :
          /\ tasks[t].ty = "Directory"
          /\ tasks[t].st = "done"
          /\ SymlinkMetadata(fs0, tasks[t].dst) # 0
          /\ ~MadeDir(t)
          /\ Children(tasks, t) = {}
          /\ FsReadDir(fs, tasks[t].src).ok
          /\ FsReadDir(fs, tasks[t].src).names # <<>>
          /\ \E s \in Siblings(t) : ~tasks[s].err /\ Copied(fs, tasks[s])

------------------------------------------------------------------------------
(* The same copy on a pool of one thread: every task runs to its end before *)
(* the next sibling starts, in the order of the sources and of the listing.  *)

RECURSIVE SeqCopy(_, _, _, _)
RECURSIVE SeqChildren(_, _, _, _, _, _)
\* copy_file(source, source_type, dest) run to its end: the filesystem it leaves
\* and the flag it returns
SeqCopy(f, src, ty, dst) ==
    IF ty # "Directory"
    THEN LET r == CopyFileOp(f, src, ty, dst) IN [fs |-> r.fs, err |-> ~r.ok]
    ELSE LET sm == SymlinkMetadata(f, src)
             r == IF sm = 0 THEN Failed(f) ELSE FsCreateDir(f, dst, f[sm].mode)
             ls == FsReadDir(r.fs, src)
         IN  IF ~r.ok THEN [fs |-> f, err |-> TRUE]
             ELSE IF ~ls.ok THEN [fs |-> r.fs, err |-> TRUE]
             ELSE SeqChildren(r.fs, src, dst, ls.names,
                      [i \in 1..Len(ls.names) |->
                          EntryFileType(r.fs, r.fs[Metadata(r.fs, src)].entries[ls.names[i]])],
                      ls.entryErr)
\* The entries listed, copied one after the other; err: the flag reduced so far
SeqChildren(f, src, dst, names, types, err) ==
    IF names = <<>> THEN [fs |-> f, err |-> err]
    ELSE LET r == SeqCopy(f, PathJoin(src, Head(names)), Head(types),
                          PathJoin(dst, Head(names)))
         IN  SeqChildren(r.fs, src, dst, Tail(names), Tail(types), err \/ r.err)
\* The sources of copy_into, copied one after the other
RECURSIVE SeqSources(_, _, _, _)
SeqSources(f, srcs, dst, err) ==
    IF srcs = <<>> THEN [fs |-> f, err |-> err]
    ELSE LET r == SeqCopy(f, Head(srcs), FsFileType(f, Head(srcs)),
                          PathJoin(dst, FileName(Head(srcs))[1]))
         IN  SeqSources(r.fs, Tail(srcs), dst, err \/ r.err)
\* The invocation past its pre-flight checks, on one thread
SeqRun ==
    IF mode = "single"
    THEN SeqCopy(fs0, sources[1], FsFileType(fs0, sources[1]), dest)
    ELSE SeqSources(fs0, sources, dest, FALSE)

\* The tree at node b of g is the tree at node a of f, node for node.
RECURSIVE SameTree(_, _, _, _)
SameTree(f, a, g, b) ==
    /\ [f[a] EXCEPT !.ino = 0, !.entries = NoEntries]
          = [g[b] EXCEPT !.ino = 0, !.entries = NoEntries]
    /\ \A n \in Names :
          /\ f[a].entries[n] = 0 <=> g[b].entries[n] = 0
          /\ f[a].entries[n] # 0 => SameTree(f, f[a].entries[n], g, g[b].entries[n])

\* The nodes of the tree at node a.
RECURSIVE TreeNodes(_, _)
TreeNodes(f, a) ==
    IF a = 0 THEN {}
    ELSE {a} \cup UNION {TreeNodes(f, f[a].entries[n]) : n \in Names}
\* Every source resolves, and no node of a source's tree, the source taken as
\* itself and as what it links to, is a node of the tree at dest or a directory
\* on the way to dest.
SourcesApartFromDest ==
    /\ \A i \in 1..Len(sources) : Metadata(fs0, sources[i]) # 0
    /\ LET srcNodes == UNION {TreeNodes(fs0, Metadata(fs0, sources[i]))
                                  \cup {SymlinkMetadata(fs0, sources[i])} :
                                  i \in 1..Len(sources)}
           anc == Ancestors(Abs(AbsComps(dest)))
           dstNodes == TreeNodes(fs0, Metadata(fs0, dest))
                           \cup {SymlinkMetadata(fs0, dest)}
                           \cup {Metadata(fs0, anc[k]) : k \in 1..Len(anc)}
       IN  srcNodes \cap dstNodes = {}

MadeType(ty) == IF ty \in Devices THEN "Regular" ELSE ty
\* The node at the destination of task t did not exist when the run started.
NewAtDst(t) == SymlinkMetadata(fs, tasks[t].dst) > Len(fs0)

\* C19: a task whose source is a socket, or whose type could not be resolved,
\* acts on nothing: it ends with its error printed and its flag true, has no
\* sub-task, and the destination path is as it was when the run started; a task
\* of any other type that made a node at its destination made the one node of its
\* type, and one that failed made none unless it is a directory.
C19_NoActionForSocketOrUnresolved ==
    \A t \in TaskIds :
        tasks[t].st = "done" =>
            /\ tasks[t].ty \in {"Socket", "Err"} =>
                  /\ tasks[t].err
                  /\ <<"copy", t>> \in stderr
                  /\ Children(tasks, t) = {}
                  /\ ~NewAtDst(t)
                  /\ SymlinkMetadata(fs, tasks[t].dst) = SymlinkMetadata(fs0, tasks[t].dst)
            /\ NewAtDst(t) =>
                  fs[SymlinkMetadata(fs, tasks[t].dst)].type = MadeType(tasks[t].ty)
            /\ (tasks[t].err /\ tasks[t].ty # "Directory") => ~NewAtDst(t)
\* A socket listed in a directory: its task failed and made nothing, while the
\* file beside it was copied.
C19_Witness ==
    \E t, u \in TaskIds :
        /\ tasks[t].st = "done"
        /\ tasks[t].ty = "Socket"
        /\ tasks[t].err
        /\ SymlinkMetadata(fs, tasks[t].dst) = 0
        /\ tasks[u].parent = tasks[t].parent
        /\ tasks[u].st = "done"
        /\ tasks[u].ty = "Regular"
        /\ NewAtDst(u)
\* A source whose type could not be resolved: its task failed and made nothing.
C19_WitnessUnresolved ==
    \E t \in TaskIds :
        /\ tasks[t].st = "done"
        /\ tasks[t].ty = "Err"
        /\ tasks[t].err
        /\ <<"copy", t>> \in stderr
        /\ SymlinkMetadata(fs, tasks[t].dst) = 0

====
